---------------------------- MODULE Spec2Model ----------------------------
(***************************************************************************)
(* QuickBooks Online OAuth proxy: the tenant (realmId) correlation layer   *)
(* of personal_qbo_attempt/auth.py.                                        *)
(*                                                                         *)
(* The Redis keyspace is one map from keys to entries.  A key is a pair    *)
(* <<family, id>> standing for "qbo:realm:<family>:<id>".  Every handler   *)
(* is a coroutine; its position is kept per client (exchange), or in one   *)
(* record (refresh), and it yields at its awaits.                          *)
(***************************************************************************)
EXTENDS Integers, Sequences, FiniteSets, TLC

(***************************************************************************)
(* Bounds of the model.                                                    *)
(***************************************************************************)
\* number of authorization flows (each has its own state value and code)
MaxFlows == 2
\* number of _refresh_token calls
MaxRefresh == 2

Flows == 1..MaxFlows
Clients == {"cA", "cB"}
\* realmId query parameter values (QuickBooks company ids are digit strings)
RealmIds == {"111", "222"}
\* the company the user of flow f authorises
RealmOf(f) == IF f % 2 = 1 THEN "111" ELSE "222"
RefreshTokens == {"r1", "r2"}

\* Python's None
None == "<None>"
\* redis: key without expiry
NoTTL == -1
\* setex(key, 600, ...)
TTL == 600

QBO_ACCOUNTING_SCOPE == "com.intuit.quickbooks.accounting"

\* the upstream access token the parent exchange hands to client c
TokenOf(c) == IF c = "cA" THEN "tokenA" ELSE "tokenB"
\* what the userinfo call can end in: a status, a timeout, another error
Outcomes == {"200", "401", "500", "timeout", "error"}
\* what can go wrong in the store while the binding is looked up
Faults == {"none", "scan", "get", "decode"}

VARIABLES
    store,      \* the Redis keyspace: key -> [value, ttl]
    nflows,     \* number of flows whose callback request has been received
    authCode,   \* per client: the proxy code issued by the parent callback
                \*   (its flow and its code model's idp refresh token)
    issued,     \* per client: what its last exchange call returned (the
                \*   flow of the tokens, 0: none) and the realm it resolved
    exch,       \* per client: the exchange_authorization_code coroutine
                \*   (first_op: the first operation it performed on the
                \*   store)
    clock,      \* datetime.utcnow(), as the number of binding writes so far
    refr,       \* the _refresh_token coroutine
    nrefr,      \* number of _refresh_token calls so far
    vres,       \* the last verify_token call and what it returned
    lastCb,     \* history: the last callback's (state, realm) pair and the
                \*   exchange that followed it, while nothing else has
                \*   written the store since
    lastBind,   \* history: per client, the arguments of the last binding write
    req,        \* history: the last callback request and how it was handled
    tool,       \* the last tool invocation's _get_qbo_client call
    expenses    \* qbo_create_expense: the idempotency keys in Redis, the
                \*   Purchases saved in QuickBooks, the coroutines handed to
                \*   the event loop, and the last invocation's outcome

vars == <<store, nflows, authCode, issued, exch, clock, refr, nrefr, vres,
          lastCb, lastBind, req, tool, expenses>>

(***************************************************************************)
(* Keys and the store primitives.                                          *)
(***************************************************************************)
StateKey(state) == <<"state", state>>
CodeKey(code) == <<"code", code>>
ClientKey(client_id) == <<"client", client_id>>

Keys == {StateKey(f) : f \in Flows} \cup {CodeKey(f) : f \in Flows}
            \cup {ClientKey(c) : c \in Clients}

\* redis SET / SETEX: the key's entry is replaced whole
RedisSet(st, key, value, ttl) ==
    [k \in DOMAIN st \cup {key} |->
        IF k = key THEN [value |-> value, ttl |-> ttl] ELSE st[k]]

\* redis DEL: no effect on a missing key
RedisDelete(st, key) == [k \in DOMAIN st \ {key} |-> st[k]]

\* redis GET: None for a missing key
RedisGet(st, key) == IF key \in DOMAIN st THEN st[key].value ELSE None

NoKey == <<"none", 0>>

\* redis SCAN MATCH "qbo:realm:<family>:*": the matching keys (in no order)
ScanIter(st, family) == {k \in DOMAIN st : k[1] = family}

\* Python truthiness of a str | None
Truthy(v) == v # None /\ v # ""

(***************************************************************************)
(* json.loads of a stored realm value, then str(...) of a non-dict result. *)
(* Digit strings without a leading zero parse as int and print unchanged;  *)
(* the other sample strings are listed with what Python makes of them.     *)
(***************************************************************************)
JsonScalars ==
    {"111", "222", "0", "1e2", "true", "null", "false", "-5", "1.50",
     " 111 ", "\"111\""}

PyStrOfJson(data) ==
    CASE data = "1e2" -> "100.0"
      [] data = "true" -> "True"
      [] data = "false" -> "False"
      [] data = "null" -> "None"
      [] data = "1.50" -> "1.5"
      [] data = " 111 " -> "111"
      [] data = "\"111\"" -> "111"
      [] OTHER -> data

\* the text of a JSON object with one string member
DictText(field, value) == "{\"" \o field \o "\": \"" \o value \o "\"}"

\* the sample texts that json.loads turns into a dict
JsonObjects ==
    {DictText(field, t) : field \in {"realm_id", "tenant_id"}, t \in RealmIds}
        \cup {"{}"}

\* line 170: realm_data.get("realm_id") of a sample dict
DictGetRealmId(data) ==
    IF \E t \in RealmIds : data = DictText("realm_id", t)
    THEN CHOOSE t \in RealmIds : data = DictText("realm_id", t)
    ELSE None

\* lines 165-183: what the state scan makes of a non-empty value
RealmFromStateValue(data) ==
    IF data \in JsonObjects THEN DictGetRealmId(data)
    ELSE IF data \in JsonScalars THEN PyStrOfJson(data) ELSE data

(***************************************************************************)
(* Bindings.                                                               *)
(***************************************************************************)
\* json.dumps of a str | None value: a quoted string, or the literal null
JsonValue(v) == IF v = None THEN <<"null">> ELSE <<"string", v>>

\* json.loads of such a value
PyValue(j) == IF j = <<"null">> THEN None ELSE j[2]

\* json.dumps of the binding's dict (updated_at is always a string)
JsonDumps(data) ==
    <<"json", [realm_id |-> JsonValue(data.realm_id),
               refresh_token |-> JsonValue(data.refresh_token),
               updated_at |-> <<"string", data.updated_at>>]>>

\* json.loads of a serialised binding
JsonLoads(text) ==
    [realm_id |-> PyValue(text[2].realm_id),
     refresh_token |-> PyValue(text[2].refresh_token),
     updated_at |-> text[2].updated_at[2]]

\* a binding write that updates the record in place: a null refresh token
\* leaves the one already stored
store_realm_merged(st, client_id, realm_id, refresh_token, now) ==
    LET old == RedisGet(st, ClientKey(client_id))
        keep == refresh_token = None /\ ClientKey(client_id) \in DOMAIN st
    IN  RedisSet(st, ClientKey(client_id),
                 JsonDumps([realm_id |-> realm_id,
                            refresh_token |->
                                IF keep THEN JsonLoads(old).refresh_token
                                ELSE refresh_token,
                            updated_at |-> now]),
                 NoTTL)

\* a binding write that gives the record the lifetime of a transient entry
store_realm_transient(st, client_id, realm_id, refresh_token, now) ==
    RedisSet(st, ClientKey(client_id),
             JsonDumps([realm_id |-> realm_id,
                        refresh_token |-> refresh_token,
                        updated_at |-> now]),
             TTL)

\* store_realm_by_client_id: SET client:<id> to the serialised triple
store_realm_by_client_id(st, client_id, realm_id, refresh_token, now) ==
    RedisSet(st, ClientKey(client_id),
             JsonDumps([realm_id |-> realm_id,
                        refresh_token |-> refresh_token,
                        updated_at |-> now]),
             NoTTL)

\* None, where the value is otherwise a record
NoData == [none |-> TRUE]

\* a lookup that decodes the first binding the keyspace holds
get_first_realm_data(st, client_id) ==
    IF ScanIter(st, "client") = {} THEN NoData
    ELSE JsonLoads(RedisGet(st, CHOOSE k \in ScanIter(st, "client") : TRUE))

\* get_realm_data_by_client_id: the decoded triple, or None
\* (GET gives None for a missing key; a serialised triple is never empty)
get_realm_data_by_client_id(st, client_id) ==
    IF ClientKey(client_id) \in DOMAIN st
    THEN JsonLoads(RedisGet(st, ClientKey(client_id)))
    ELSE NoData


(***************************************************************************)
(* Initial state: an empty keyspace, no flow started.                      *)
(***************************************************************************)
NoCode == [live |-> FALSE, flow |-> 0, refresh_token |-> None]
NoCb ==
    [phase |-> "none", kind |-> None, state |-> 0, realm |-> None,
     by |-> None, got |-> None]

ExchIdle ==
    [pc |-> "idle", code_model |-> NoCode, realm_id |-> None,
     refresh_token |-> None, key |-> NoKey, result |-> 0,
     first_op |-> None]

\* no exchange has returned to the client
NoIssue == [flow |-> 0, realm_id |-> None]

RefrIdle ==
    [pc |-> "idle", client_id |-> None, refresh_token |-> None,
     realm_id |-> None, calls |-> 0, upstream |-> None, field |-> None,
     new_refresh |-> None, result |-> NoData]

NoVerify ==
    [token |-> None, outcome |-> None, fault |-> None, key |-> NoKey,
     scanned |-> FALSE, client_id |-> None, realm_id |-> None,
     result |-> NoData, first_op |-> None]

\* no callback request yet
NoReq ==
    [state |-> 0, code |-> 0, realm_id |-> None, parent_calls |-> 0,
     parent_response |-> None, response |-> None]

\* no tool invoked yet
NoTool == [called |-> FALSE, error |-> None, client |-> NoData]

\* no expense created, no idempotency key stored, nothing handed to the loop
NoExpenseResult ==
    [key |-> None, error |-> None, existing_id |-> None, expense_id |-> None,
     warning |-> None, after_success |-> FALSE, first_id |-> None,
     saved |-> None]

NoExpenses ==
    [idem |-> [k \in {} |-> NoData], purchases |-> <<>>, pending |-> {},
     expired |-> {}, last |-> NoExpenseResult]

Init ==
    /\ store = [k \in {} |-> NoData]
    /\ nflows = 0
    /\ authCode = [c \in Clients |-> NoCode]
    /\ issued = [c \in Clients |-> NoIssue]
    /\ exch = [c \in Clients |-> ExchIdle]
    /\ clock = 0
    /\ refr = RefrIdle
    /\ nrefr = 0
    /\ vres = NoVerify
    /\ lastCb = NoCb
    /\ lastBind = [c \in Clients |-> NoData]
    /\ req = NoReq
    /\ tool = NoTool
    /\ expenses = NoExpenses

(***************************************************************************)
(* _handle_idp_callback (lines 114-141).  The query parameters state and   *)
(* code of a flow are its own (unique per flow, spec section 3: flow f     *)
(* has state f and code f); each may be missing from the request, and so   *)
(* may realmId.  The parent handler needs state and code to complete the   *)
(* upstream exchange; when it succeeds it issues the proxy code of the     *)
(* flow to the flow's client c.                                            *)
(***************************************************************************)
\* a callback that writes the state: entry alone
CallbackWritesStateOnly(st, f, hasState, hasCode, realm_id) ==
    IF Truthy(realm_id) /\ hasState
    THEN RedisSet(st, StateKey(f), realm_id, TTL) ELSE st

\* a callback that writes its entries with SET, without a time to live
CallbackWritesNoExpiry(st, f, hasState, hasCode, realm_id) ==
    LET st1 == IF Truthy(realm_id) /\ hasState
               THEN RedisSet(st, StateKey(f), realm_id, NoTTL) ELSE st
    IN  IF Truthy(realm_id) /\ hasCode
        THEN RedisSet(st1, CodeKey(f), realm_id, NoTTL) ELSE st1

\* lines 128-138: the writes of the callback, in order
CallbackWrites(st, f, hasState, hasCode, realm_id) ==
    LET st1 == IF Truthy(realm_id) /\ hasState
               THEN RedisSet(st, StateKey(f), realm_id, TTL) ELSE st
    IN  IF Truthy(realm_id) /\ hasCode
        THEN RedisSet(st1, CodeKey(f), realm_id, TTL) ELSE st1

\* a callback that gives up when the request carries no realmId
DelegatesWithRealm(realm_id) == Truthy(realm_id)

\* line 141: the parent handler is called on every path
Delegates(realm_id) == TRUE

\* the response of the parent handler: the redirect to the client when it
\* completed the upstream exchange, its error page otherwise
ParentResponse(parentOk) == IF parentOk THEN "redirect" ELSE "error_page"

_handle_idp_callback(f, c, hasState, hasCode, realm_id, rt, parentOk) ==
    /\ f = nflows + 1
    /\ realm_id \in {RealmOf(f), None}
    /\ parentOk => (hasState /\ hasCode /\ ~authCode[c].live)
    /\ parentOk => Delegates(realm_id)
    /\ req' = [state |-> IF hasState THEN f ELSE 0,
               code |-> IF hasCode THEN f ELSE 0,
               realm_id |-> realm_id,
               parent_calls |-> IF Delegates(realm_id) THEN 1 ELSE 0,
               parent_response |-> ParentResponse(parentOk),
               response |-> IF Delegates(realm_id)
                            THEN ParentResponse(parentOk) ELSE None]
    /\ nflows' = f
    /\ store' = CallbackWrites(store, f, hasState, hasCode, realm_id)
    /\ authCode' = IF parentOk
                   THEN [authCode EXCEPT ![c] =
                            [live |-> TRUE, flow |-> f, refresh_token |-> rt]]
                   ELSE authCode
    /\ lastCb' = IF Truthy(realm_id) /\ hasState
                 THEN [NoCb EXCEPT !.phase = "written", !.kind = "state",
                                   !.state = f, !.realm = realm_id]
                 ELSE IF Truthy(realm_id) /\ hasCode
                 THEN [NoCb EXCEPT !.phase = "written", !.kind = "code",
                                   !.state = f, !.realm = realm_id]
                 ELSE lastCb
    /\ UNCHANGED <<issued, exch, clock, refr, nrefr, vres, lastBind, tool, expenses>>

Callback ==
    \E f \in Flows, c \in Clients, hasState \in BOOLEAN, hasCode \in BOOLEAN,
       realm_id \in RealmIds \cup {None}, rt \in {None, "r1"}, parentOk \in BOOLEAN :
        _handle_idp_callback(f, c, hasState, hasCode, realm_id, rt, parentOk)

(***************************************************************************)
(* The backend expires a transient entry (TTL 600 s elapsed).              *)
(***************************************************************************)
Expire ==
    \E k \in DOMAIN store :
        /\ store[k].ttl # NoTTL
        /\ store' = RedisDelete(store, k)
        /\ lastCb' = NoCb
        /\ UNCHANGED <<nflows, authCode, issued, exch, clock, refr, nrefr,
                       vres, lastBind, req, tool, expenses>>

(***************************************************************************)
(* exchange_authorization_code (lines 143-211).  The token endpoint calls  *)
(* it for a client that presented a live proxy code.  It yields between    *)
(* reading the entry it takes and deleting it, around the parent's         *)
(* exchange, and before the binding write.                                 *)
(***************************************************************************)
\* history: a store write by client c's exchange leaves the tracked callback
\* pair alone only when c's exchange is the one that followed the callback
CbAfterWriteBy(c) ==
    IF lastCb.phase = "exchanging" /\ lastCb.by = c THEN lastCb ELSE NoCb

\* history: client c's exchange starts; it is tracked when it is the
\* exchange of the flow whose callback wrote the state: entry, or, after a
\* callback that wrote a code: entry alone, when it finds no state: entry
CbAfterStartBy(c) ==
    IF /\ lastCb.phase = "written"
       /\ \/ lastCb.kind = "state" /\ authCode[c].flow = lastCb.state
          \/ lastCb.kind = "code" /\ ScanIter(store, "state") = {}
    THEN [lastCb EXCEPT !.phase = "exchanging", !.by = c] ELSE lastCb

\* history: client c's exchange returns normally with realm_id resolved
CbAfterReturnBy(c, realm_id) ==
    IF lastCb.phase = "exchanging" /\ lastCb.by = c
    THEN [lastCb EXCEPT !.phase = "returned", !.got = realm_id] ELSE lastCb

\* a state scan that looks only at the entry of the exchange's own flow
StateCandidatesOwnFlow(st, code_model) ==
    {k \in ScanIter(st, "state") :
        /\ k = StateKey(code_model.flow)
        /\ Truthy(RedisGet(st, k))}

\* a state scan that stops at the first non-empty value, whatever it yields
StateCandidatesAnyValue(st, code_model) ==
    {k \in ScanIter(st, "state") : Truthy(RedisGet(st, k))}

\* lines 161-183: the entries the state scan can stop at: those whose value
\* is non-empty and yields a non-empty realm (SCAN yields keys in no order,
\* so any of them can be the first)
StateCandidates(st, code_model) ==
    {k \in ScanIter(st, "state") :
        /\ Truthy(RedisGet(st, k))
        /\ Truthy(RealmFromStateValue(RedisGet(st, k)))}

\* lines 186-194: the entries the code scan can stop at
CodeCandidates(st, code_model) ==
    {k \in ScanIter(st, "code") : Truthy(RedisGet(st, k))}

\* lines 150-175: the code model is read, then the state scan runs and
\* stops at entry k
ExchangeFindState(c, k) ==
    /\ exch[c].pc = "idle"
    /\ authCode[c].live
    /\ k \in StateCandidates(store, authCode[c])
    /\ exch' = [exch EXCEPT ![c] =
                   [ExchIdle EXCEPT !.pc = "delete",
                                    !.first_op = "scan_iter",
                                    !.code_model = authCode[c],
                                    !.realm_id = RealmFromStateValue(RedisGet(store, k)),
                                    !.key = k]]
    /\ lastCb' = CbAfterStartBy(c)
    /\ UNCHANGED <<store, nflows, authCode, issued, clock, refr, nrefr,
                   vres, lastBind, req, tool, expenses>>

\* lines 150-192: the state scan ends without a realm; the code scan stops
\* at entry k
ExchangeFindCode(c, k) ==
    /\ exch[c].pc = "idle"
    /\ authCode[c].live
    /\ StateCandidates(store, authCode[c]) = {}
    /\ k \in CodeCandidates(store, authCode[c])
    /\ exch' = [exch EXCEPT ![c] =
                   [ExchIdle EXCEPT !.pc = "delete",
                                    !.first_op = "scan_iter",
                                    !.code_model = authCode[c],
                                    !.realm_id = RedisGet(store, k),
                                    !.key = k]]
    /\ lastCb' = CbAfterStartBy(c)
    /\ UNCHANGED <<store, nflows, authCode, issued, clock, refr, nrefr,
                   vres, lastBind, req, tool, expenses>>

\* lines 150-194: both scans end without a realm
ExchangeFindNone(c) ==
    /\ exch[c].pc = "idle"
    /\ authCode[c].live
    /\ StateCandidates(store, authCode[c]) = {}
    /\ CodeCandidates(store, authCode[c]) = {}
    /\ exch' = [exch EXCEPT ![c] =
                   [ExchIdle EXCEPT !.pc = "parent",
                                    !.first_op = "scan_iter",
                                    !.code_model = authCode[c]]]
    /\ lastCb' = CbAfterStartBy(c)
    /\ UNCHANGED <<store, nflows, authCode, issued, clock, refr, nrefr,
                   vres, lastBind, req, tool, expenses>>

\* an exchange that leaves the entry it took in place
ConsumeEntryKept(st, key) == st

\* the store after the exchange has cleaned up the entry it took
ConsumeEntry(st, key) == RedisDelete(st, key)

\* lines 176-177, 182-183, 193-194: the entry is deleted, the scan is left
ExchangeDelete(c) ==
    /\ exch[c].pc = "delete"
    /\ store' = ConsumeEntry(store, exch[c].key)
    /\ exch' = [exch EXCEPT ![c].pc = "parent"]
    /\ lastCb' = CbAfterWriteBy(c)
    /\ UNCHANGED <<nflows, authCode, issued, clock, refr, nrefr, vres,
                   lastBind, req, tool, expenses>>

\* line 197, the parent raises: the call ends with the parent's exception
ExchangeParentRaises(c) ==
    /\ exch[c].pc = "parent"
    /\ exch' = [exch EXCEPT ![c] = ExchIdle]
    /\ lastCb' = IF lastCb.by = c THEN NoCb ELSE lastCb
    /\ UNCHANGED <<store, nflows, authCode, issued, clock, refr, nrefr, vres,
                   lastBind, req, tool, expenses>>

\* an exchange that writes the binding whether or not a realm was found
ShouldBindAlways(realm_id, client_id) == TRUE

\* line 205: `if realm_id and client.client_id`
ShouldBind(realm_id, client_id) == Truthy(realm_id) /\ Truthy(client_id)

\* lines 197-211: the parent consumes the proxy code and returns the
\* client's tokens; the refresh token is taken from the code model read at
\* the start; without a realm the call returns the parent's result here
ExchangeParent(c) ==
    /\ exch[c].pc = "parent"
    /\ authCode[c].live
    /\ authCode' = [authCode EXCEPT ![c] = NoCode]
    /\ IF ShouldBind(exch[c].realm_id, c)
       THEN /\ exch' = [exch EXCEPT
                   ![c].pc = "bind",
                   ![c].result = authCode[c].flow,
                   ![c].code_model = NoCode,
                   ![c].refresh_token =
                       IF exch[c].code_model.live
                       THEN exch[c].code_model.refresh_token ELSE None]
            /\ UNCHANGED <<issued, lastCb, expenses>>
       ELSE /\ exch' = [exch EXCEPT ![c] = ExchIdle]
            /\ issued' = [issued EXCEPT ![c] =
                             [flow |-> authCode[c].flow,
                              realm_id |-> exch[c].realm_id]]
            /\ lastCb' = CbAfterReturnBy(c, exch[c].realm_id)
    /\ UNCHANGED <<store, nflows, clock, refr, nrefr, vres, lastBind, req, tool, expenses>>

\* history of binding writes
BindHistory(c, realm_id, refresh_token, now) ==
    lastBind' = [lastBind EXCEPT ![c] =
                    [realm_id |-> realm_id, refresh_token |-> refresh_token,
                     updated_at |-> now]]

\* lines 205-211: the binding is written, the parent's result returned
ExchangeBind(c) ==
    /\ exch[c].pc = "bind"
    /\ store' = store_realm_by_client_id(store, c, exch[c].realm_id,
                                         exch[c].refresh_token, clock)
    /\ clock' = clock + 1
    /\ exch' = [exch EXCEPT ![c] = ExchIdle]
    /\ BindHistory(c, exch[c].realm_id, exch[c].refresh_token, clock)
    /\ issued' = [issued EXCEPT ![c] =
                     [flow |-> exch[c].result, realm_id |-> exch[c].realm_id]]
    /\ lastCb' = IF lastCb.phase = "exchanging" /\ lastCb.by = c
                 THEN CbAfterReturnBy(c, exch[c].realm_id) ELSE NoCb
    /\ UNCHANGED <<nflows, authCode, refr, nrefr, vres, req, tool, expenses>>

Exchange ==
    \E c \in Clients :
        \/ \E k \in Keys : ExchangeFindState(c, k)
        \/ \E k \in Keys : ExchangeFindCode(c, k)
        \/ ExchangeFindNone(c)
        \/ ExchangeDelete(c)
        \/ ExchangeParentRaises(c)
        \/ ExchangeParent(c)
        \/ ExchangeBind(c)

NextFlow == Callback \/ Expire \/ Exchange

SpecFlow == Init /\ [][NextFlow]_vars

(***************************************************************************)
(* The backend enforces the TTL of every entry written with SETEX: an      *)
(* entry that stays in the store is eventually expired.                    *)
(***************************************************************************)
ExpireKey(k) == Expire /\ k \in DOMAIN store /\ k \notin DOMAIN store'

SpecFlowFair ==
    SpecFlow /\ \A k \in Keys : WF_vars(ExpireKey(k))

(***************************************************************************)
(* The exchange applied to a keyspace whose state: entries use any of the  *)
(* encodings the scan distinguishes: a bare realm, an object with a        *)
(* realm_id or a tenant_id member, an object without either, an empty      *)
(* value.  The callbacks are over; client cA holds the proxy code of flow  *)
(* 1, client cB that of flow 2.                                            *)
(***************************************************************************)
StateEncodings(t) == {t, DictText("realm_id", t), DictText("tenant_id", t)}

NoRealmValues == {"", "{}"}

InitialCode(c) ==
    [live |-> TRUE, flow |-> IF c = "cA" THEN 1 ELSE 2, refresh_token |-> "r1"]

InitEncoded ==
    /\ \E sv \in [Flows -> RealmIds \cup JsonObjects \cup NoRealmValues \cup {None}],
          cv \in [Flows -> BOOLEAN] :
          /\ \A f \in Flows :
                sv[f] \in StateEncodings(RealmOf(f)) \cup NoRealmValues \cup {None}
          /\ store = [k \in {StateKey(f) : f \in {g \in Flows : sv[g] # None}}
                              \cup {CodeKey(f) : f \in {g \in Flows : cv[g]}} |->
                         [value |-> IF k[1] = "state" THEN sv[k[2]]
                                    ELSE RealmOf(k[2]),
                          ttl |-> TTL]]
    /\ nflows = MaxFlows
    /\ authCode = [c \in Clients |-> InitialCode(c)]
    /\ issued = [c \in Clients |-> NoIssue]
    /\ exch = [c \in Clients |-> ExchIdle]
    /\ clock = 0
    /\ refr = RefrIdle
    /\ nrefr = 0
    /\ vres = NoVerify
    /\ lastCb = NoCb
    /\ lastBind = [c \in Clients |-> NoData]
    /\ req = NoReq
    /\ tool = NoTool
    /\ expenses = NoExpenses

NextEncoded == Expire \/ Exchange

SpecEncoded == InitEncoded /\ [][NextEncoded]_vars

(***************************************************************************)
(* The exchange after a callback whose realmId parameter is any non-empty  *)
(* string: the samples are digit strings, the other texts json.loads       *)
(* accepts, and one it rejects ("007").  Flow 1 has been called back with  *)
(* realmId t and its proxy code issued to client cA.                       *)
(***************************************************************************)
RealmSamples == JsonScalars \cup {"007"}

InitLiteral ==
    /\ \E t \in RealmSamples, hasState \in BOOLEAN, hasCode \in BOOLEAN :
          /\ hasState \/ hasCode
          /\ store = CallbackWrites([k \in {} |-> NoData], 1, hasState,
                                    hasCode, t)
          /\ req = [state |-> IF hasState THEN 1 ELSE 0,
                    code |-> IF hasCode THEN 1 ELSE 0,
                    realm_id |-> t, parent_calls |-> 1,
                    parent_response |-> ParentResponse(TRUE),
                    response |-> ParentResponse(TRUE)]
    /\ nflows = 1
    /\ authCode = [c \in Clients |->
                      IF c = "cA" THEN InitialCode(c) ELSE NoCode]
    /\ issued = [c \in Clients |-> NoIssue]
    /\ exch = [c \in Clients |-> ExchIdle]
    /\ clock = 0
    /\ refr = RefrIdle
    /\ nrefr = 0
    /\ vres = NoVerify
    /\ lastCb = NoCb
    /\ lastBind = [c \in Clients |-> NoData]
    /\ tool = NoTool
    /\ expenses = NoExpenses

NextLiteral == Expire \/ Exchange

SpecLiteral == InitLiteral /\ [][NextLiteral]_vars

(***************************************************************************)
(* QBOTokenVerifier._refresh_token (lines 241-277).  Its caller passes the *)
(* refresh token and realm it read from the client's binding (spec 2:      *)
(* the verifier reads the binding and invokes the refresher).              *)
(***************************************************************************)
\* line 267: data.get("refresh_token", refresh_token)
NewRefresh(field, refresh_token) ==
    IF field = "absent" THEN refresh_token ELSE field

\* lines 241-259: the call is made, the POST is sent
RefreshStart(c) ==
    /\ refr.pc \in {"idle", "done"}
    /\ nrefr < MaxRefresh
    /\ LET data == get_realm_data_by_client_id(store, c)
       IN  /\ data # NoData
           /\ Truthy(data.refresh_token)
           /\ refr' = [RefrIdle EXCEPT !.pc = "post", !.client_id = c,
                                       !.calls = 1,
                                       !.refresh_token = data.refresh_token,
                                       !.realm_id = data.realm_id]
    /\ nrefr' = nrefr + 1
    /\ UNCHANGED <<store, nflows, authCode, issued, exch, clock, vres,
                   lastCb, lastBind, req, tool, expenses>>

\* lines 261-267: the answer is 200 with a body whose refresh_token field is
\* absent, null or a token
RefreshResponse200(field) ==
    /\ refr.pc = "post"
    /\ refr' = [refr EXCEPT !.pc = "store", !.upstream = "200",
                            !.field = field,
                            !.new_refresh = NewRefresh(field, refr.refresh_token)]
    /\ UNCHANGED <<store, nflows, authCode, issued, exch, clock, nrefr, vres,
                   lastCb, lastBind, req, tool, expenses>>

\* how the POST can fail: a status other than 200, a transport error, a
\* timeout
RefreshFailures == {"400", "error", "timeout"}

\* a refresher that sends the POST a second time after a failure
RefreshFailureRetried(r, how) ==
    IF r.calls < 2
    THEN [r EXCEPT !.calls = @ + 1, !.upstream = how]
    ELSE [r EXCEPT !.pc = "done", !.upstream = how, !.result = NoData]

\* lines 261-263, 275-277: None is returned
RefreshFailure(r, how) ==
    [r EXCEPT !.pc = "done", !.upstream = how, !.result = NoData]

\* lines 261-263, 275-277: the answer is not 200, or the POST raises
RefreshFails(how) ==
    /\ refr.pc = "post"
    /\ refr' = RefreshFailure(refr, how)
    /\ UNCHANGED <<store, nflows, authCode, issued, exch, clock, nrefr, vres,
                   lastCb, lastBind, req, tool, expenses>>

\* a refresh that writes back the token it was called with
PersistedStale(r) == r.refresh_token

\* the refresh token _refresh_token persists
PersistedRefresh(r) == r.new_refresh

\* lines 269-273: the binding is rewritten, the token pair returned
RefreshStore ==
    /\ refr.pc = "store"
    /\ store' = store_realm_by_client_id(store, refr.client_id, refr.realm_id,
                                         PersistedRefresh(refr), clock)
    /\ clock' = clock + 1
    /\ refr' = [refr EXCEPT !.pc = "done",
                            !.result = [new_access |-> "access2",
                                        new_refresh |-> refr.new_refresh]]
    /\ BindHistory(refr.client_id, refr.realm_id, PersistedRefresh(refr), clock)
    /\ lastCb' = NoCb
    /\ UNCHANGED <<nflows, authCode, issued, exch, nrefr, vres, req, tool, expenses>>

\* lines 270, 275-277: the binding write raises; None is returned
RefreshStoreRaises ==
    /\ refr.pc = "store"
    /\ refr' = [refr EXCEPT !.pc = "done", !.result = NoData]
    /\ UNCHANGED <<store, nflows, authCode, issued, exch, clock, nrefr, vres,
                   lastCb, lastBind, req, tool, expenses>>

Refresh ==
    \/ \E c \in Clients : RefreshStart(c)
    \/ \E field \in RefreshTokens \cup {"absent", None} : RefreshResponse200(field)
    \/ \E how \in RefreshFailures : RefreshFails(how)
    \/ RefreshStore
    \/ RefreshStoreRaises

NextRefresh == Callback \/ Exchange \/ Refresh

SpecRefresh == Init /\ [][NextRefresh]_vars

(***************************************************************************)
(* QBOTokenVerifier.verify_token (lines 279-351).  The inputs are the      *)
(* presented token, how the userinfo call ends, which client: key the scan *)
(* yields first, and whether the store fails during the lookup.            *)
(***************************************************************************)
AccessToken(token, client_id, scopes, claims) ==
    [token |-> token, client_id |-> client_id, scopes |-> scopes,
     claims |-> claims]

\* lines 233-236: required_scopes or [QBO_ACCOUNTING_SCOPE]
required_scopes == <<QBO_ACCOUNTING_SCOPE>>

\* a verifier that rejects no status before the lookup
RejectedNever(outcome) == FALSE

\* a verifier that rejects every status but 200
RejectedUnless200(outcome) == outcome # "200"

\* lines 298-300: the statuses on which the token is rejected at once
Rejected(outcome) == outcome = "401"

\* a verifier that fails closed on a timeout
TimeoutFailsClosed(token, now) == [none |-> TRUE]

\* lines 335-348: the claims returned when the userinfo call times out
TimeoutFallback(token, now) ==
    AccessToken(token, "timeout-fallback", required_scopes,
                [upstream_access_token |-> token, realm_id |-> None,
                 validated_at |-> now, timeout |-> TRUE])

\* lines 225-239: what a verifier can be constructed with (an empty
\* required_scopes stands for None or []; None for the other parameters
\* leaves them to the environment)
VerifierConfigs ==
    [client_id : {None, "app"}, client_secret : {None, "secret"},
     base_url : {None, "https://mcp.example"},
     required_scopes : {<<>>, <<"openid">>}]

\* lines 233-236: the scopes the constructor hands to the base class
ConfiguredScopes(cfg) ==
    IF cfg.required_scopes = <<>> THEN <<QBO_ACCOUNTING_SCOPE>>
    ELSE cfg.required_scopes

\* lines 335-348 for a verifier constructed with cfg: the configuration
\* reaches the timeout branch through self.required_scopes alone
TimeoutFallbackOf(cfg, token, now) ==
    [TimeoutFallback(token, now) EXCEPT !.scopes = ConfiguredScopes(cfg)]

\* a verifier that treats every exception as it treats the timeout
OnExceptionFailOpen(token, now) ==
    [token |-> token, client_id |-> "timeout-fallback",
     scopes |-> <<QBO_ACCOUNTING_SCOPE>>,
     claims |-> [upstream_access_token |-> token, realm_id |-> None,
                 validated_at |-> now, timeout |-> TRUE]]

\* lines 349-351: what any other exception of the call turns into
OnException(token, now) == NoData

\* client ids as they are registered: short opaque ids, and ids that are
\* URLs or URNs
ClientIdSamples == Clients \cup {"https://app.example/mcp", "urn:client:7"}

\* str.split(":") of a sample client id
SplitColon(text) ==
    CASE text = "https://app.example/mcp" -> <<"https", "//app.example/mcp">>
      [] text = "urn:client:7" -> <<"urn", "client", "7">>
      [] OTHER -> <<text>>

\* line 313: key_str.split(":")[-1]; the key text is the prefix
\* qbo:realm:client: followed by the client id
ClientIdOfKey(k) ==
    LET parts == <<"qbo", "realm", "client">> \o SplitColon(k[2])
    IN  parts[Len(parts)]

\* lines 306-333: the binding lookup and the claims built from it; k is the
\* first key the scan yields (NoKey when it yields none)
ResolveBinding(st, token, k, fault, now) ==
    LET client_id == IF k = NoKey THEN "default" ELSE ClientIdOfKey(k)
        realm_data == IF k = NoKey THEN NoData
                      ELSE get_realm_data_by_client_id(st, client_id)
        realm_id == IF realm_data = NoData THEN None ELSE realm_data.realm_id
    IN  IF fault = "scan" \/ (k # NoKey /\ fault \in {"get", "decode"})
        THEN [scanned |-> TRUE, client_id |-> client_id, realm_id |-> None,
              result |-> OnException(token, now)]
        ELSE [scanned |-> TRUE, client_id |-> client_id, realm_id |-> realm_id,
              result |-> AccessToken(token, client_id, required_scopes,
                            [upstream_access_token |-> token,
                             realm_id |-> realm_id,
                             validated_at |-> now])]

\* the whole call
VerifyToken(st, token, outcome, k, fault, now) ==
    IF Rejected(outcome)
    THEN [scanned |-> FALSE, client_id |-> None, realm_id |-> None,
          result |-> NoData]
    ELSE IF outcome = "timeout"
    THEN [scanned |-> FALSE, client_id |-> None, realm_id |-> None,
          result |-> TimeoutFallback(token, now)]
    ELSE IF outcome = "error"
    THEN [scanned |-> FALSE, client_id |-> None, realm_id |-> None,
          result |-> OnException(token, now)]
    ELSE ResolveBinding(st, token, k, fault, now)

\* the keys the scan of client:* may yield first
FirstClientKey(st) ==
    IF ScanIter(st, "client") = {} THEN {NoKey} ELSE ScanIter(st, "client")

\* a verifier that refreshes the binding it found: it rewrites the key
\* with a rotated refresh token
verify_token_refreshing(c, outcome, k, fault) ==
    /\ outcome = "200" => issued[c].flow # 0
    /\ k \in (IF outcome \in {"200", "500"} /\ fault # "scan"
              THEN FirstClientKey(store) ELSE {NoKey})
    /\ fault # "none" => outcome \in {"200", "500"}
    /\ fault \in {"get", "decode"} => k # NoKey
    /\ LET r == VerifyToken(store, TokenOf(c), outcome, k, fault, clock)
       IN  /\ vres' = [token |-> TokenOf(c), outcome |-> outcome,
                       fault |-> fault, key |-> k, scanned |-> r.scanned,
                       client_id |-> r.client_id, realm_id |-> r.realm_id,
                       result |-> r.result,
                       first_op |-> IF r.scanned THEN "scan_iter" ELSE None]
           /\ store' = IF Truthy(r.realm_id)
                       THEN store_realm_by_client_id(store, r.client_id,
                                                     r.realm_id, "r2", clock)
                       ELSE store
    /\ UNCHANGED <<nflows, authCode, issued, exch, clock, refr, nrefr,
                   lastCb, lastBind, req, tool, expenses>>

verify_token(c, outcome, k, fault) ==
    /\ outcome = "200" => issued[c].flow # 0
    /\ k \in (IF outcome \in {"200", "500"} /\ fault # "scan"
              THEN FirstClientKey(store) ELSE {NoKey})
    /\ fault # "none" => outcome \in {"200", "500"}
    /\ fault \in {"get", "decode"} => k # NoKey
    /\ LET r == VerifyToken(store, TokenOf(c), outcome, k, fault, clock)
       IN  vres' = [token |-> TokenOf(c), outcome |-> outcome, fault |-> fault,
                    key |-> k, scanned |-> r.scanned, client_id |-> r.client_id,
                    realm_id |-> r.realm_id, result |-> r.result,
                    first_op |-> IF r.scanned THEN "scan_iter" ELSE None]
    /\ UNCHANGED <<store, nflows, authCode, issued, exch, clock, refr, nrefr,
                   lastCb, lastBind, req, tool, expenses>>

Verify ==
    \E c \in Clients, outcome \in Outcomes,
       k \in Keys \cup DOMAIN store \cup {NoKey}, fault \in Faults :
        verify_token(c, outcome, k, fault)

(***************************************************************************)
(* A tool invocation (tools.py, register_tools): every tool starts with    *)
(* _get_qbo_client, which reads the AccessToken that verify_token returned *)
(* for the request.                                                        *)
(***************************************************************************)
\* client.py create_qbo_client: the client for a company and a token
create_qbo_client(realm_id, access_token) ==
    [realm_id |-> realm_id, access_token |-> access_token]

\* a lookup that builds the client from whatever the claims carry
get_qbo_client_unchecked(token) ==
    [called |-> TRUE, error |-> None,
     client |-> create_qbo_client(token.claims.realm_id,
                                  token.claims.upstream_access_token)]

\* tools.py lines 30-97: the ValidationError raised, or the client built
_get_qbo_client(token) ==
    IF token = NoData
    THEN [called |-> TRUE, error |-> "no_access_token", client |-> NoData]
    ELSE LET claims == token.claims
             upstream_token == claims.upstream_access_token
             realm_id == claims.realm_id
         IN  IF ~Truthy(upstream_token)
             THEN [called |-> TRUE, error |-> "missing_upstream_token",
                   client |-> NoData]
             ELSE IF ~Truthy(realm_id)
             THEN [called |-> TRUE, error |-> "missing_realm_id",
                   client |-> NoData]
             ELSE [called |-> TRUE, error |-> None,
                   client |-> create_qbo_client(realm_id, upstream_token)]

\* a tool runs in a request that verify_token authenticated
ToolCall ==
    /\ vres # NoVerify
    /\ vres.result # NoData
    /\ ~tool.called
    /\ tool' = _get_qbo_client(vres.result)
    /\ UNCHANGED <<store, nflows, authCode, issued, exch, clock, refr, nrefr,
                   vres, lastCb, lastBind, req, expenses>>

(***************************************************************************)
(* qbo_create_expense (tools.py 311-387) and QBOClient.create_expense      *)
(* (client.py 810-1000) with the idempotency store (storage.py).  The tool *)
(* is a coroutine of the server's event loop; after its first await it     *)
(* calls the synchronous create_expense directly, so the loop's thread is  *)
(* inside that call until it returns and invocations do not overlap.  The  *)
(* request is authenticated for a company (_get_qbo_client succeeded).     *)
(***************************************************************************)
MaxExpenses == 3
IdemKeys == {"k1", "k2"}
DEFAULT_TTL_DAYS == 30
SecondsPerDay == 86400
TimeoutError == "<TimeoutError>"

\* IdempotencyStore.check: the stored expense id, or None
IdempotencyStore_check(idem, key) ==
    IF key \in DOMAIN idem THEN idem[key].expense_id ELSE None

\* IdempotencyStore.store: SETEX of the key with the default TTL
IdempotencyStore_store(idem, key, expense_id) ==
    [k \in DOMAIN idem \cup {key} |->
        IF k = key
        THEN [expense_id |-> expense_id,
              ttl |-> DEFAULT_TTL_DAYS * SecondsPerDay]
        ELSE idem[k]]

\* tools.py 312, 373: create_expense runs on the thread of the event loop
OnLoopThread == TRUE

\* run_coroutine_threadsafe(coro, loop).result(timeout=5): the coroutine is
\* handed to the loop, which runs it when its thread is free; a caller on
\* the loop's own thread waits five seconds and gets the timeout, a caller
\* on another thread gets the coroutine's value
FutureResult(onLoopThread, value) ==
    IF onLoopThread THEN TimeoutError ELSE value

\* tools.py 70-78: sync_check, any exception turned into None
sync_check(idem, key) ==
    LET r == FutureResult(OnLoopThread, IdempotencyStore_check(idem, key))
    IN  IF r = TimeoutError THEN None ELSE r

\* the coroutines a bridge call leaves with the loop when it times out
Handed(coro) == IF OnLoopThread THEN {coro} ELSE {}

\* tools.py 80-87: sync_store, any exception swallowed: the key as stored
\* when the bridge returns
sync_store(idem, key, expense_id) ==
    IF FutureResult(OnLoopThread, "stored") = TimeoutError THEN idem
    ELSE IdempotencyStore_store(idem, key, expense_id)

\* str(purchase.Id): QuickBooks numbers the Purchases it saves
ExpenseId(n) == ToString(n)

\* history: the ids of the Purchases saved under key K, oldest first
SavedUnder(purchases, K) ==
    SelectSeq([i \in 1..Len(purchases) |->
                  IF purchases[i] = K THEN ExpenseId(i) ELSE None],
              LAMBDA x : x # None)

\* what the part of create_expense before the save can raise (client.py
\* 845-958), and what the save can (969-972); "ok": nothing
CreateOutcomes ==
    {"ok", "VALIDATION_ERROR", "ACCOUNT_NOT_FOUND", "VENDOR_NOT_FOUND",
     "QBO_API_ERROR"}

\* the receipt argument: none, files that attach, or files whose attaching
\* fails in one of the ways attach_receipts distinguishes
Receipts ==
    {"none", "ok", "missing_file", "unreadable", "unsupported",
     "upload_failed", "lookup_failed"}

\* client.py 1181-1277: the error attach_receipts raises, None when it
\* returns
attach_receipts(receipt) ==
    CASE receipt = "lookup_failed" -> "EXPENSE_NOT_FOUND"
      [] receipt = "missing_file" -> "VALIDATION_ERROR"
      [] receipt = "unsupported" -> "UNSUPPORTED_MIME_TYPE"
      [] receipt = "unreadable" -> "VALIDATION_ERROR"
      [] receipt = "upload_failed" -> "ATTACHMENT_ERROR"
      [] OTHER -> None

\* client.py 986: except (AttachmentError, UnsupportedMimeTypeError)
AttachmentCaught(error) ==
    error \in {"ATTACHMENT_ERROR", "UNSUPPORTED_MIME_TYPE"}

\* a create_expense that records the key before it saves the Purchase
StorerCalledBeforeSave(keyed, duplicate, saved) == keyed /\ ~duplicate

\* client.py 969-979: the storer is called after the save has returned
StorerCalled(keyed, duplicate, saved) == keyed /\ saved

\* one invocation of the tool with idempotencyKey K (None: omitted);
\* outcome: what validation and the save end in; receipt: the files given
qbo_create_expense(K, outcome, receipt) ==
    /\ Len(expenses.purchases) < MaxExpenses
    /\ LET e == expenses
           keyed == Truthy(K)
           existing_id == IF keyed THEN sync_check(e.idem, K) ELSE None
           duplicate == Truthy(existing_id)
           checks == IF keyed THEN Handed(<<"check", K, None>>) ELSE {}
           saved == ~duplicate /\ outcome = "ok"
           expense_id == ExpenseId(Len(e.purchases) + 1)
           stored == StorerCalled(keyed, duplicate, saved)
           attach_error == IF saved /\ receipt # "none"
                           THEN attach_receipts(receipt) ELSE None
           raised == IF duplicate THEN "DUPLICATE_TRANSACTION"
                     ELSE IF outcome # "ok" THEN outcome
                     ELSE IF attach_error # None /\ ~AttachmentCaught(attach_error)
                     THEN attach_error
                     ELSE None
           prior == IF keyed /\ K \notin e.expired
                    THEN SavedUnder(e.purchases, K) ELSE <<>>
       IN  expenses' =
             [e EXCEPT
                !.purchases = IF saved THEN Append(@, K) ELSE @,
                !.idem = IF stored THEN sync_store(@, K, expense_id) ELSE @,
                !.pending = @ \cup checks \cup
                    (IF stored THEN Handed(<<"store", K, expense_id>>)
                     ELSE {}),
                !.last =
                    [key |-> K, error |-> raised,
                     existing_id |-> existing_id,
                     expense_id |-> IF raised = None THEN expense_id ELSE None,
                     warning |-> IF raised = None THEN attach_error ELSE None,
                     after_success |-> prior # <<>>,
                     first_id |-> IF prior # <<>> THEN prior[1] ELSE None,
                     saved |-> IF saved THEN expense_id ELSE None]]
    /\ UNCHANGED <<store, nflows, authCode, issued, exch, clock, refr, nrefr,
                   vres, lastCb, lastBind, req, tool>>

CreateExpense ==
    \E K \in IdemKeys \cup {None}, outcome \in CreateOutcomes,
       receipt \in Receipts :
        qbo_create_expense(K, outcome, receipt)

\* the loop, free again, runs a coroutine a bridge handed to it: a check
\* has nobody left to return to, a store writes the key
LoopRuns ==
    \E coro \in expenses.pending :
        /\ expenses' =
              [expenses EXCEPT
                 !.pending = @ \ {coro},
                 !.idem = IF coro[1] = "store"
                          THEN IdempotencyStore_store(@, coro[2], coro[3])
                          ELSE @,
                 !.expired = IF coro[1] = "store" THEN @ \ {coro[2]} ELSE @]
        /\ UNCHANGED <<store, nflows, authCode, issued, exch, clock, refr,
                       nrefr, vres, lastCb, lastBind, req, tool>>

\* the backend expires an idempotency key (30 days elapsed)
IdemExpire ==
    \E K \in DOMAIN expenses.idem :
        /\ expenses' =
              [expenses EXCEPT
                 !.idem = [k \in DOMAIN @ \ {K} |-> @[k]],
                 !.expired = @ \cup {K}]
        /\ UNCHANGED <<store, nflows, authCode, issued, exch, clock, refr,
                       nrefr, vres, lastCb, lastBind, req, tool>>

NextExpense == CreateExpense \/ LoopRuns \/ IdemExpire

SpecExpense == Init /\ [][NextExpense]_vars

(***************************************************************************)
(* verify_token applied to a keyspace whose only binding was written by    *)
(* an exchange for a client with any of the sample ids.                    *)
(***************************************************************************)
InitKeyed ==
    /\ \E cid \in ClientIdSamples, t \in RealmIds,
          rt \in RefreshTokens \cup {None} :
          /\ store = store_realm_by_client_id([k \in {} |-> NoData], cid, t,
                                              rt, 0)
          /\ issued = [c \in Clients |-> [flow |-> 1, realm_id |-> t]]
    /\ nflows = 1
    /\ authCode = [c \in Clients |-> NoCode]
    /\ exch = [c \in Clients |-> ExchIdle]
    /\ clock = 1
    /\ refr = RefrIdle
    /\ nrefr = 0
    /\ vres = NoVerify
    /\ lastCb = NoCb
    /\ lastBind = [c \in Clients |-> NoData]
    /\ req = NoReq
    /\ tool = NoTool
    /\ expenses = NoExpenses

NextKeyed ==
    \/ vres = NoVerify /\ Verify
    \/ ToolCall

SpecKeyed == InitKeyed /\ [][NextKeyed]_vars

\* flows run until one verification call, and the tool it admits, are
\* observed
NextVerify ==
    \/ vres = NoVerify /\ Callback
    \/ vres = NoVerify /\ Exchange
    \/ vres = NoVerify /\ Verify
    \/ ToolCall

SpecVerify == Init /\ [][NextVerify]_vars

\* a verification that gets a 200 answer and looks the binding up
VerifyLookup ==
    \E c \in Clients, k \in Keys \cup {NoKey} :
        verify_token(c, "200", k, "none")

\* every operation on the store, TTL expiry included, until one
\* verification that reads the store is observed
NextAll ==
    \/ vres = NoVerify /\ Callback
    \/ vres = NoVerify /\ Expire
    \/ vres = NoVerify /\ Exchange
    \/ vres = NoVerify /\ Refresh
    \/ vres = NoVerify /\ VerifyLookup

SpecAll == Init /\ [][NextAll]_vars

Next ==
    \/ Callback \/ Expire \/ Exchange \/ Refresh \/ Verify \/ ToolCall
    \/ CreateExpense \/ LoopRuns \/ IdemExpire

Spec == Init /\ [][Next]_vars

(***************************************************************************)
(* Properties.                                                             *)
(***************************************************************************)
Binding(c) == get_realm_data_by_client_id(store, c)

(* C1: a callback wrote (state s, realm t); the exchange of that flow       *)
(* started after it and returned normally, and nothing else wrote the      *)
(* store in between.  Then the exchange resolved t, the binding of its     *)
(* client has realm t, and state:s is gone, whatever else the store held   *)
(* before the callback.                                                    *)
C1_ExchangeResolvesCallbackPair ==
    (lastCb.phase = "returned" /\ lastCb.kind = "state") =>
        /\ lastCb.got = lastCb.realm
        /\ Binding(lastCb.by) # NoData
        /\ Binding(lastCb.by).realm_id = lastCb.realm
        /\ StateKey(lastCb.state) \notin DOMAIN store

(* C2: cross-talk is possible.  Whenever two clients a and b hold live     *)
(* proxy codes of flows whose state entries are both in the store with     *)
(* different realms, and a's exchange is about to start, a's state scan    *)
(* can stop at the entry of b's flow.                                      *)
C2_CrossTalkEnabled ==
    \A a \in Clients, b \in Clients :
        LET ka == StateKey(authCode[a].flow)
            kb == StateKey(authCode[b].flow)
        IN  (/\ a # b
             /\ authCode[a].live /\ authCode[b].live
             /\ exch[a].pc = "idle"
             /\ ka \in DOMAIN store /\ kb \in DOMAIN store
             /\ RedisGet(store, ka) # RedisGet(store, kb))
            => ENABLED ExchangeFindState(a, kb)

\* C2 witness: the cross-talk has happened: client a's token comes from
\* flow fa, its binding carries the realm of flow fb, whose client b still
\* holds its unexchanged proxy code; state:fb is gone while code:fb and a's
\* own state:fa are still there
C2_CrossTalkHappened ==
    \E a \in Clients, b \in Clients :
        LET fa == issued[a].flow
            fb == authCode[b].flow
        IN  /\ a # b
            /\ fa # 0
            /\ authCode[b].live /\ exch[b].pc = "idle"
            /\ Binding(a) # NoData
            /\ Binding(a).realm_id = RealmOf(fb)
            /\ RealmOf(fb) # RealmOf(fa)
            /\ StateKey(fb) \notin DOMAIN store
            /\ CodeKey(fb) \in DOMAIN store
            /\ StateKey(fa) \in DOMAIN store

(* C4: when an exchange that took a realm from a state: or code: entry     *)
(* returns (normally or with the parent's exception), that entry is not    *)
(* in the store; and it is absent from the delete on.                      *)
C4_ConsumedEntryDeleted ==
    /\ [](\A c \in Clients :
            (exch[c].pc \in {"parent", "bind"} /\ exch[c].key # NoKey)
                => exch[c].key \notin DOMAIN store)
    /\ [][\A c \in Clients :
            (exch[c].pc # "idle" /\ exch'[c].pc = "idle" /\ exch[c].key # NoKey)
                => exch[c].key \notin DOMAIN store']_vars

\* C4 witness: an exchange that took a state: entry is past its parent
\* exchange, about to write the binding, and the entry is gone
C4_StateEntryConsumed ==
    \E c \in Clients :
        /\ exch[c].pc = "bind"
        /\ exch[c].key[1] = "state"
        /\ Truthy(exch[c].realm_id)
        /\ exch[c].key \notin DOMAIN store

\* the client a token was issued to
ClientOfToken(token) == CHOOSE c \in Clients : TokenOf(c) = token

(* C3: when the userinfo call answers 200 and the client the token was     *)
(* issued to has a binding, verify_token returns claims with that client's *)
(* id and that binding's realm, whatever other bindings the store holds.   *)
C3_VerifyReturnsOwnBinding ==
    (/\ vres.outcome = "200" /\ vres.fault = "none"
     /\ Binding(ClientOfToken(vres.token)) # NoData)
    => /\ vres.result # NoData
       /\ vres.result.client_id = ClientOfToken(vres.token)
       /\ vres.result.claims.realm_id =
              Binding(ClientOfToken(vres.token)).realm_id

(* C5: the store holds at most one record per client id, at client:<id>,   *)
(* and it is exactly the triple of the last binding write for that client  *)
(* (by the exchange or by the refresh), null refresh token included.       *)
C5_BindingIsLastWrite ==
    /\ ScanIter(store, "client") \subseteq {ClientKey(c) : c \in Clients}
    /\ \A c \in Clients :
        /\ lastBind[c] = NoData => ClientKey(c) \notin DOMAIN store
        /\ lastBind[c] # NoData =>
             /\ store[ClientKey(c)].ttl = NoTTL
             /\ Binding(c) = lastBind[c]

\* C5 witness: a refresh call in flight still holds the refresh token it
\* read from the client's binding, and a later exchange for that client
\* with no refresh token has replaced the binding: its token is null
C5_NullTokenReplaced ==
    /\ refr.pc \in {"post", "store"}
    /\ Truthy(refr.refresh_token)
    /\ Binding(refr.client_id) # NoData
    /\ Binding(refr.client_id).refresh_token = None
    /\ Binding(refr.client_id).updated_at > 0

C7_Rejects401 ==
    vres.outcome = "401" => vres.result = NoData /\ ~vres.scanned

\* C7 witness: a 401 answer rejected while the store holds two bindings
C7_Rejected401WithBindings ==
    /\ vres.outcome = "401"
    /\ vres.result = NoData
    /\ Cardinality(ScanIter(store, "client")) = 2

(* C8: when the userinfo call times out, verify_token returns claims with  *)
(* the presented token, realm None, timeout True and the required scopes,  *)
(* whatever bindings the store holds.                                      *)
C8_TimeoutFailsOpen ==
    vres.outcome = "timeout" =>
        /\ vres.result # NoData
        /\ vres.result.token = vres.token
        /\ vres.result.scopes = <<QBO_ACCOUNTING_SCOPE>>
        /\ vres.result.claims.upstream_access_token = vres.token
        /\ vres.result.claims.realm_id = None
        /\ "timeout" \in DOMAIN vres.result.claims
        /\ vres.result.claims.timeout = TRUE

\* C8 witness: fail-open claims returned while the store holds a binding
C8_FailedOpenWithBinding ==
    /\ vres.outcome = "timeout"
    /\ vres.result # NoData
    /\ ScanIter(store, "client") # {}

(* C9: verify_token returns None when the userinfo call raises anything    *)
(* but a timeout, when the scan or the read of the store raises, and when  *)
(* the binding cannot be decoded.                                          *)
C9_OtherErrorsFailClosed ==
    (vres.outcome = "error" \/ vres.fault # "none") => vres.result = NoData

\* C9 witness: an undecodable binding, met after a 200 answer, gave None
C9_DecodeErrorRejected ==
    /\ vres.outcome = "200"
    /\ vres.fault = "decode"
    /\ vres.result = NoData

(* C10: on a status other than 200 and 401 verify_token returns what it    *)
(* returns for a 200 answer: authenticated claims with the realm of the    *)
(* binding the scan yields.                                                *)
C10_OtherStatusAccepted ==
    (vres.outcome = "500" /\ vres.fault = "none") =>
        /\ vres.result # NoData
        /\ vres.key # NoKey =>
              vres.result.claims.realm_id =
                  Binding(ClientIdOfKey(vres.key)).realm_id
        /\ vres.key = NoKey => vres.result.claims.realm_id = None
        /\ vres.result =
              VerifyToken(store, vres.token, "200", vres.key, "none", clock).result

\* C10 witness: a 500 answer, and claims carrying a realm from the store
C10_Accepted500WithRealm ==
    /\ vres.outcome = "500"
    /\ vres.result # NoData
    /\ vres.result.claims.realm_id \in RealmIds

(* C11: a callback without state wrote code:k -> t alone; an exchange      *)
(* then started while the store held no state: entry, nothing else wrote   *)
(* the store in between, and the exchange returned normally.  Then it      *)
(* resolved t, the binding of its client has realm t, and code:k is gone.  *)
C11_CodeFallbackResolvesCallbackPair ==
    (lastCb.phase = "returned" /\ lastCb.kind = "code") =>
        /\ lastCb.got = lastCb.realm
        /\ Binding(lastCb.by) # NoData
        /\ Binding(lastCb.by).realm_id = lastCb.realm
        /\ CodeKey(lastCb.state) \notin DOMAIN store

(* C12: the code: entry an exchange takes in its fallback is the one keyed *)
(* by the code of the flow whose authorization code the call presents.     *)
C12_CodeFallbackScoped ==
    \A c \in Clients :
        (exch[c].pc = "delete" /\ exch[c].key[1] = "code")
            => exch[c].key = CodeKey(exch[c].code_model.flow)

(* C15: a callback step writes state:<state> -> realmId with TTL 600 iff   *)
(* realmId and state are present, code:<code> -> realmId with TTL 600 iff  *)
(* realmId and code are present, and changes no other key of the store.    *)
C15_CallbackWritesExactly ==
    [][nflows' # nflows =>
        \A k \in Keys :
            IF \/ k = StateKey(req'.state) /\ Truthy(req'.realm_id)
               \/ k = CodeKey(req'.code) /\ Truthy(req'.realm_id)
            THEN /\ k \in DOMAIN store'
                 /\ store'[k] = [value |-> req'.realm_id, ttl |-> 600]
            ELSE /\ k \in DOMAIN store' <=> k \in DOMAIN store
                 /\ k \in DOMAIN store => store'[k] = store[k]]_vars

\* C15 witness: a callback with realmId and code but no state has written
\* the code: entry and no state: entry, beside an older client: binding
C15_CodeOnlyWritten ==
    /\ req.state = 0 /\ req.code # 0 /\ Truthy(req.realm_id)
    /\ CodeKey(req.code) \in DOMAIN store
    /\ StateKey(req.code) \notin DOMAIN store
    /\ ScanIter(store, "client") # {}

C13_UnresolvedExchangeVerifiesNull ==
    \A c \in Clients :
        (/\ vres.outcome = "200" /\ vres.fault = "none"
         /\ vres.token = TokenOf(c)
         /\ issued[c].flow # 0
         /\ ~Truthy(issued[c].realm_id))
        => /\ vres.result # NoData
           /\ vres.result.claims.realm_id = None

(* C14: an exchange returns the parent's result; it writes the binding     *)
(* {realm_id, refresh token of the code model, updated_at} of its client   *)
(* exactly when a realm was resolved, and only in the step that follows    *)
(* the parent's successful return; when the parent raises, nothing is      *)
(* written and nothing returned.                                           *)
C14_ExchangeReturnsParentResult ==
    [][\A c \in Clients :
        LET before == get_realm_data_by_client_id(store, c)
            after == get_realm_data_by_client_id(store', c)
        IN  /\ (exch[c].pc = "bind" /\ exch'[c].pc = "idle") =>
                 /\ issued'[c].flow = exch[c].result
                 /\ Truthy(exch[c].realm_id)
                 /\ after = [realm_id |-> exch[c].realm_id,
                             refresh_token |-> exch[c].refresh_token,
                             updated_at |-> clock]
            /\ (exch[c].pc = "parent" /\ exch'[c].pc = "bind") =>
                 /\ Truthy(exch[c].realm_id)
                 /\ exch'[c].result = authCode[c].flow
                 /\ exch'[c].refresh_token = exch[c].code_model.refresh_token
                 /\ after = before
            /\ (exch[c].pc = "parent" /\ exch'[c].pc = "idle") =>
                 /\ after = before
                 /\ IF authCode'[c] # authCode[c]
                    THEN /\ ~Truthy(exch[c].realm_id)
                         /\ issued'[c].flow = authCode[c].flow
                    ELSE issued'[c] = issued[c]
            /\ (exch[c].pc \in {"idle", "delete"} /\ exch'[c] # exch[c]) =>
                 after = before /\ issued'[c] = issued[c]]_vars

\* C14 witness: one client's exchange resolved a realm and its binding
\* holds that realm and the code model's refresh token; another client's
\* exchange returned without a realm and left no binding
C14_BoundAndUnbound ==
    \E a \in Clients, b \in Clients :
        /\ issued[a].flow # 0 /\ Truthy(issued[a].realm_id)
        /\ Binding(a) # NoData
        /\ Binding(a).realm_id = issued[a].realm_id
        /\ Binding(a).refresh_token = "r1"
        /\ issued[b].flow # 0 /\ issued[b].realm_id = None
        /\ ClientKey(b) \notin DOMAIN store

(* C18: a _refresh_token call whose POST is answered with a status other  *)
(* than 200, or raises (timeout included), ends in that step: it returns   *)
(* None, has sent one POST, and the step leaves the store as it was.       *)
C18_RefreshFailureSurfaced ==
    [][(refr.pc = "post" /\ refr' # refr /\ refr'.pc # "store") =>
            /\ refr'.pc = "done"
            /\ refr'.upstream \in {"400", "error", "timeout"}
            /\ refr'.result = NoData
            /\ refr'.calls = 1
            /\ store' = store]_vars

\* C18 witness: a refresh whose POST timed out has returned None after one
\* call, and the binding still holds the refresh token that was sent
C18_TimedOutRefreshReturnedNone ==
    /\ refr.pc = "done"
    /\ refr.upstream = "timeout"
    /\ refr.result = NoData
    /\ refr.calls = 1
    /\ Binding(refr.client_id) # NoData
    /\ Binding(refr.client_id).refresh_token = refr.refresh_token

(* C19: in every reachable store, get_realm_data_by_client_id after       *)
(* store_realm_by_client_id(c, t, r) returns realm t and refresh token r   *)
(* for c and what it returned before for every other client; it returns   *)
(* None for a client without binding; and each client's lookup returns     *)
(* the realm and refresh token of the last write made for it.              *)
C19_BindingRoundTrip ==
    /\ \A c \in Clients, t \in RealmIds, r \in RefreshTokens \cup {None} :
        LET st2 == store_realm_by_client_id(store, c, t, r, clock)
            data == get_realm_data_by_client_id(st2, c)
        IN  /\ data # NoData
            /\ data.realm_id = t
            /\ data.refresh_token = r
            /\ \A c2 \in Clients \ {c} :
                 get_realm_data_by_client_id(st2, c2) =
                     get_realm_data_by_client_id(store, c2)
    /\ \A c \in Clients :
        /\ ClientKey(c) \notin DOMAIN store => Binding(c) = NoData
        /\ lastBind[c] # NoData =>
             /\ Binding(c) # NoData
             /\ Binding(c).realm_id = lastBind[c].realm_id
             /\ Binding(c).refresh_token = lastBind[c].refresh_token

\* C19 witness: one client's binding was written with a null refresh token
\* and reads back so, while the other client has a different binding
\* whose refresh token was rotated
C19_ReadBackBesideOther ==
    \E c \in Clients, c2 \in Clients :
        /\ c # c2
        /\ lastBind[c] # NoData /\ lastBind[c].refresh_token = None
        /\ Binding(c) # NoData /\ Binding(c).refresh_token = None
        /\ Binding(c2) # NoData
        /\ Binding(c2).realm_id # Binding(c).realm_id
        /\ Binding(c2).refresh_token = "r2"

(* C17: verify_token returns claims, not an error, when it finds no       *)
(* realm; and a tool invoked with claims whose realm_id is None, the       *)
(* fail-open claims of a timeout among them, raises the missing_realm_id   *)
(* ValidationError and builds no QBOClient.                                *)
C17_NullRealmRejectedByTool ==
    /\ (/\ vres.outcome \in {"200", "500"} /\ vres.fault = "none"
        /\ vres.realm_id = None)
       => /\ vres.result # NoData
          /\ vres.result.claims.realm_id = None
    /\ (tool.called /\ ~Truthy(vres.result.claims.realm_id))
       => /\ tool.error = "missing_realm_id"
          /\ tool.client = NoData
    /\ (tool.called /\ vres.outcome = "timeout") => tool.client = NoData

\* C17 witness: a tool invoked under the fail-open claims of a timed-out
\* verification, while the store holds a binding, has raised
C17_FailOpenClaimsRejected ==
    /\ tool.called
    /\ vres.outcome = "timeout"
    /\ tool.error = "missing_realm_id"
    /\ tool.client = NoData
    /\ ScanIter(store, "client") # {}

(* C20: a client: key that is in the store stays in it, without TTL, over *)
(* every step; a step changes or creates the key of client c only when it  *)
(* is the binding write of c's exchange or of a refresh for c; a callback  *)
(* step and a verify_token step leave every client: key as it was.         *)
C20_BindingDurable ==
    /\ [](\A c \in Clients :
            ClientKey(c) \in DOMAIN store => store[ClientKey(c)].ttl = NoTTL)
    /\ [][\A c \in Clients :
            LET k == ClientKey(c)
                changed == \/ k \in DOMAIN store' /\ k \notin DOMAIN store
                           \/ k \in DOMAIN store /\ k \notin DOMAIN store'
                           \/ /\ k \in DOMAIN store /\ k \in DOMAIN store'
                              /\ store'[k] # store[k]
            IN  /\ k \in DOMAIN store => k \in DOMAIN store'
                /\ changed =>
                     \/ exch[c].pc = "bind" /\ exch'[c].pc = "idle"
                     \/ /\ refr.pc = "store" /\ refr'.pc = "done"
                        /\ refr.client_id = c
                /\ (nflows' # nflows \/ vres' # vres) => ~changed]_vars

\* C20 witness: a binding written first of all is still there after other
\* binding writes, after every transient entry has expired, and after a
\* verification that read the store
C20_BindingOutlivedTransients ==
    \E c \in Clients :
        /\ Binding(c) # NoData
        /\ Binding(c).updated_at = 0
        /\ clock >= 2
        /\ nflows = MaxFlows
        /\ ScanIter(store, "state") = {} /\ ScanIter(store, "code") = {}
        /\ vres.scanned

(* C26: once an exchange has resolved its realm from a state: entry and   *)
(* deleted it, the code: entry the same callback wrote is not in the store *)
(* either.                                                                 *)
C26_NoLeftoverCodeEntry ==
    \A c \in Clients :
        (exch[c].pc \in {"parent", "bind"} /\ exch[c].key[1] = "state")
            => CodeKey(exch[c].key[2]) \notin DOMAIN store

(* C27: when no exchange and no refresh is in flight, the binding of a     *)
(* client whose last exchange resolved a realm carries that realm.         *)
C27_RefreshKeepsTenant ==
    \A c \in Clients :
        (/\ exch[c].pc = "idle"
         /\ refr.pc \in {"idle", "done"}
         /\ issued[c].flow # 0
         /\ Truthy(issued[c].realm_id))
        => /\ Binding(c) # NoData
           /\ Binding(c).realm_id = issued[c].realm_id

(* C28: the step in which an exchange ends with the parent's exception     *)
(* leaves the entry the exchange resolved from in the store, and the       *)
(* client without a new binding.                                           *)
C28_FailedExchangeLeavesStore ==
    [][\A c \in Clients :
        (/\ exch[c].pc = "parent" /\ exch'[c].pc = "idle"
         /\ authCode'[c] = authCode[c])
        => /\ exch[c].key # NoKey => exch[c].key \in DOMAIN store'
           /\ get_realm_data_by_client_id(store', c) =
                  get_realm_data_by_client_id(store, c)]_vars

(* C29: a _refresh_token call that returned None did not get a 200 answer  *)
(* carrying a rotated refresh token while the binding still holds the      *)
(* token it sent.                                                          *)
C29_NoneMeansTokenStillValid ==
    (refr.pc = "done" /\ refr.result = NoData)
        => ~(/\ refr.upstream = "200"
             /\ refr.field \in RefreshTokens
             /\ refr.field # refr.refresh_token
             /\ Binding(refr.client_id) # NoData
             /\ Binding(refr.client_id).refresh_token = refr.refresh_token)

(* C21: under the backend's TTL enforcement every state: and code: entry  *)
(* in the store is eventually absent, whether or not an exchange runs; and *)
(* an exchange only ever resolves its realm from an entry that is in the   *)
(* store when it reads it.                                                 *)
C21_TransientEntriesVanish ==
    /\ \A f \in Flows :
          /\ (StateKey(f) \in DOMAIN store) ~> (StateKey(f) \notin DOMAIN store)
          /\ (CodeKey(f) \in DOMAIN store) ~> (CodeKey(f) \notin DOMAIN store)
    /\ [][\A c \in Clients :
            (exch[c].pc = "idle" /\ exch'[c].pc = "delete")
                => exch'[c].key \in DOMAIN store]_vars

\* a flow was abandoned: its callback wrote both entries, no proxy code was
\* ever issued or exchanged, and both entries are gone
C21_AbandonedFlowExpired ==
    /\ req.state # 0 /\ req.code # 0 /\ Truthy(req.realm_id)
    /\ StateKey(req.state) \notin DOMAIN store
    /\ CodeKey(req.code) \notin DOMAIN store
    /\ \A c \in Clients :
          ~authCode[c].live /\ issued[c] = NoIssue /\ exch[c] = ExchIdle

(* C23: an exchange that starts when the only state: entry encodes realm t *)
(* (bare, or as an object with member realm_id or tenant_id) takes that    *)
(* entry and resolves t.                                                   *)
C23_AnyEncodingResolves ==
    [][\A c \in Clients, f \in Flows :
        (/\ exch[c].pc = "idle" /\ exch'[c].pc # "idle"
         /\ ScanIter(store, "state") = {StateKey(f)}
         /\ RedisGet(store, StateKey(f)) \in StateEncodings(RealmOf(f)))
        => /\ exch'[c].key = StateKey(f)
           /\ exch'[c].realm_id = RealmOf(f)]_vars

(* C30: a step of an exchange removes no transient entry but the one it    *)
(* resolved its realm from, and removes that one in its single delete      *)
(* step; the scan stops at an entry (and the delete step follows) exactly  *)
(* when it yields a realm, entries that yield none stay in the store, and  *)
(* a code: entry is taken only when no state: entry yields a realm.        *)
TransientGone == {k \in DOMAIN store \ DOMAIN store' : k[1] # "client"}

YieldsRealm(st, k) ==
    Truthy(RedisGet(st, k)) /\ Truthy(RealmFromStateValue(RedisGet(st, k)))

C24_FailOpenConfigurable ==
    vres.outcome = "timeout" =>
        \E cfg \in VerifierConfigs :
            TimeoutFallbackOf(cfg, vres.token, clock) = NoData

(* C22: the first store operation of every exchange and of every         *)
(* verification that touches the store is a GET by the call's own key;    *)
(* a prefix scan comes only after it.                                      *)
C22_ScanOnlyAfterKeyedMiss ==
    /\ \A c \in Clients : exch[c].pc # "idle" => exch[c].first_op = "get"
    /\ vres.scanned => vres.first_op = "get"

(* C25: while a key has not expired, at most one Purchase has been saved  *)
(* under it, and an invocation that starts after one with the same key has *)
(* succeeded raises DuplicateError carrying the first expense id.          *)
C25_IdempotentCreation ==
    /\ \A K \in IdemKeys :
          K \notin expenses.expired =>
              Len(SavedUnder(expenses.purchases, K)) <= 1
    /\ expenses.last.after_success =>
          /\ expenses.last.error = "DUPLICATE_TRANSACTION"
          /\ expenses.last.existing_id = expenses.last.first_id

(* C31: the realm written into a client's binding by the exchange is the  *)
(* string the callback received as realmId, whatever text it is.           *)
C31_RealmStoredVerbatim ==
    \A c \in Clients :
        Binding(c) # NoData => Binding(c).realm_id = req.realm_id

C33_KeyRoundTrip ==
    \A k \in ScanIter(store, "client") :
        (/\ vres.outcome = "200" /\ vres.fault = "none"
         /\ ScanIter(store, "client") = {k})
        => /\ vres.result.client_id = k[2]
           /\ vres.result.claims.realm_id = JsonLoads(RedisGet(store, k)).realm_id

(* C34: an invocation of create_expense that raises before or during the *)
(* save saves no Purchase, leaves the stored idempotency keys as they were *)
(* and hands no store of a key to the loop.                                *)
C34_KeyRecordedOnlyWhenCreated ==
    [][(/\ expenses'.last # expenses.last
        /\ expenses'.last.error # None
        /\ expenses'.last.saved = None)
       => /\ expenses'.purchases = expenses.purchases
          /\ expenses'.idem = expenses.idem
          /\ \A coro \in expenses'.pending \ expenses.pending :
                coro[1] # "store"]_vars

\* an invocation carrying a key was refused by QuickBooks at the save, and
\* neither a Purchase nor the key, stored or on its way, exists
C34_FailedSaveLeftNoKey ==
    /\ expenses.last.error = "QBO_API_ERROR"
    /\ expenses.last.key \in IdemKeys
    /\ expenses.purchases = <<>>
    /\ expenses.last.key \notin DOMAIN expenses.idem
    /\ \A coro \in expenses.pending : coro[1] # "store"

(* C35: an invocation that saved a Purchase returns normally, with the id  *)
(* of that Purchase in its result.                                         *)
C35_SavedExpenseIdReturned ==
    expenses.last.saved # None =>
        /\ expenses.last.error = None
        /\ expenses.last.expense_id = expenses.last.saved

=============================================================================
